---- MODULE Spec2Model ----
(***************************************************************************)
(* larg4::ISCalculationSeparate                                            *)
(* (larsim/IonizationScintillation/ISCalculationSeparate.cxx)              *)
(*                                                                         *)
(* The calculator turns one energy deposit into a number of ionization    *)
(* electrons (recombination model) and a number of scintillation photons. *)
(*                                                                         *)
(* C++ double and float values are modelled as IEEE-754 classes over a    *)
(* decimal fixed-point magnitude: a value is a record [cls, val] with     *)
(* cls one of "fin", "pinf", "ninf", "nan" and val the finite value in    *)
(* units of 1/Scale.  Division by zero, sqrt of a negative number and log *)
(* of a non-positive number give the IEEE results (inf / NaN), and NaN    *)
(* compares false with everything, as on the platforms the code is built  *)
(* for.  Finite results are truncated to 1/Scale instead of being rounded *)
(* to 53 bits.                                                            *)
(***************************************************************************)
EXTENDS Integers, Sequences, FiniteSets, TLC

\* ------------------------------------------------------------------------
\* Fixed-point IEEE arithmetic
\* ------------------------------------------------------------------------
Scale == 10 * 10 * 10 * 10

Fin(v) == [cls |-> "fin", val |-> v]
PInf == [cls |-> "pinf", val |-> 0]
NInf == [cls |-> "ninf", val |-> 0]
NaN == [cls |-> "nan", val |-> 0]
Zero == Fin(0)
One == Fin(Scale)

IsFin(a) == a.cls = "fin"
IsNaN(a) == a.cls = "nan"
IsInf(a) == a.cls \in {"pinf", "ninf"}

Abs(n) == IF n < 0 THEN -n ELSE n

\* sign of a value: -1, 0, 1 (NaN has none and is handled by the callers)
Sgn(a) ==
  CASE a.cls = "pinf" -> 1
    [] a.cls = "ninf" -> -1
    [] OTHER -> IF a.val > 0 THEN 1 ELSE IF a.val < 0 THEN -1 ELSE 0

SignedInf(s) == IF s < 0 THEN NInf ELSE PInf

\* |a| * |b| / Scale on magnitudes, split so that no intermediate product
\* leaves the 32-bit range
MulMag(a, b) ==
  LET qa == a \div Scale
      ra == a % Scale
      qb == b \div Scale
      rb == b % Scale
  IN qa * qb * Scale + qa * rb + ra * qb + (ra * rb) \div Scale

\* |a| * Scale / |d| on magnitudes, d > 0
RECURSIVE LongDiv(_, _, _, _)
LongDiv(r, d, acc, n) ==
  IF n = 0 THEN acc
  ELSE LongDiv((r * 10) % d, d, acc * 10 + (r * 10) \div d, n - 1)

DivMag(a, d) == LongDiv(a % d, d, a \div d, 4)

\* a + b
FAdd(a, b) ==
  CASE IsNaN(a) \/ IsNaN(b) -> NaN
    [] IsInf(a) /\ IsInf(b) -> IF a.cls = b.cls THEN a ELSE NaN
    [] IsInf(a) -> a
    [] IsInf(b) -> b
    [] OTHER -> Fin(a.val + b.val)

\* a * b
FMul(a, b) ==
  CASE IsNaN(a) \/ IsNaN(b) -> NaN
    [] IsInf(a) \/ IsInf(b) ->
         IF Sgn(a) = 0 \/ Sgn(b) = 0 THEN NaN ELSE SignedInf(Sgn(a) * Sgn(b))
    [] OTHER -> Fin(Sgn(a) * Sgn(b) * MulMag(Abs(a.val), Abs(b.val)))

\* a / b
FDiv(a, b) ==
  CASE IsNaN(a) \/ IsNaN(b) -> NaN
    [] IsInf(a) /\ IsInf(b) -> NaN
    [] IsInf(a) -> SignedInf(Sgn(a) * (IF Sgn(b) < 0 THEN -1 ELSE 1))
    [] IsInf(b) -> Zero
    [] b.val = 0 -> IF a.val = 0 THEN NaN ELSE SignedInf(Sgn(a))
    [] OTHER -> Fin(Sgn(a) * Sgn(b) * DivMag(Abs(a.val), Abs(b.val)))

\* a < b
FLt(a, b) ==
  CASE IsNaN(a) \/ IsNaN(b) -> FALSE
    [] a.cls = "pinf" -> FALSE
    [] b.cls = "ninf" -> FALSE
    [] a.cls = "ninf" -> TRUE
    [] b.cls = "pinf" -> TRUE
    [] OTHER -> a.val < b.val

\* a <= b
FLe(a, b) == ~IsNaN(a) /\ ~IsNaN(b) /\ ~FLt(b, a)

\* floor of the square root of n, 0 <= n < 2^31
RECURSIVE SqrtSearch(_, _, _)
SqrtSearch(n, lo, hi) ==
  IF hi - lo <= 1 THEN lo
  ELSE LET mid == (lo + hi) \div 2
       IN IF mid * mid <= n THEN SqrtSearch(n, mid, hi) ELSE SqrtSearch(n, lo, mid)

ISqrt(n) == SqrtSearch(n, 0, 46341)

\* std::sqrt
FSqrt(a) ==
  CASE IsNaN(a) -> NaN
    [] a.cls = "pinf" -> PInf
    [] a.cls = "ninf" -> NaN
    [] a.val < 0 -> NaN
    [] a.val < 200000 -> Fin(ISqrt(a.val * Scale))
    [] OTHER -> Fin(ISqrt(a.val) * 100)

\* ln(v / Scale) * Scale for Scale <= v <= 2 * Scale, by the series
\* 2 * (y + y^3/3 + y^5/5 + y^7/7 + y^9/9), y = (v - 1) / (v + 1)
LnSeries(v) ==
  LET y == DivMag(v - Scale, v + Scale)
      y2 == MulMag(y, y)
      y3 == MulMag(y, y2)
      y5 == MulMag(y3, y2)
      y7 == MulMag(y5, y2)
      y9 == MulMag(y7, y2)
  IN 2 * (y + y3 \div 3 + y5 \div 5 + y7 \div 7 + y9 \div 9)

Ln2 == LnSeries(2 * Scale)

\* range reduction to [Scale, 2 * Scale) by powers of two
RECURSIVE LnReduce(_, _)
LnReduce(v, k) ==
  IF v >= 2 * Scale THEN LnReduce(v \div 2, k + 1)
  ELSE IF v < Scale THEN LnReduce(v * 2, k - 1)
  ELSE k * Ln2 + LnSeries(v)

\* log (natural logarithm)
FLog(a) ==
  CASE IsNaN(a) -> NaN
    [] a.cls = "pinf" -> PInf
    [] a.cls = "ninf" -> NaN
    [] a.val < 0 -> NaN
    [] a.val = 0 -> NInf
    [] OTHER -> Fin(LnReduce(a.val, 0))

\* ------------------------------------------------------------------------
\* Inputs: deposits and the services handed to Initialize
\* ------------------------------------------------------------------------
MaxEnergy == 5
NumDeposits == 3

\* deposited energies (MeV): 0, 0.2 and 1 .. MaxEnergy
Energies == {Fin(0), Fin(Scale \div 5)} \cup {Fin(i * Scale) : i \in 1..MaxEnergy}

\* step lengths (cm): 0, 0.3 and 1.5
StepLengths == {Fin(0), Fin(3000), Fin(15000)}

\* step mid-points (x, y, z), in cm
MidPoints == {<<0, 0, 0>>, <<50, 0, 10>>, <<100, 0, 20>>}

\* species codes: every code of the dispatch table and some outside it
PdgCodes == {2212, 13, -13, 211, -211, 321, -321, 1000020040, 11, -11, 22,
             -2212, 2112, 12, 0, -1000020040}

Vec(x, y, z) == [X |-> Fin(x), Y |-> Fin(y), Z |-> Fin(z)]

\* spacecharge::SpaceCharge::GetEfieldOffsets: a pure function of the
\* position; fractional offsets of a few per cent, of either sign
GetEfieldOffsets(sce, pt) ==
  CASE pt[1] = 0 -> Vec(0, 0, 0)
    [] pt[1] = 50 -> Vec(200, 500, 300)
    [] pt[1] = 100 -> Vec(-500, -2000, -1000)
    [] OTHER -> Vec(1000, -200, 400)

\* spacecharge::SpaceCharge
SpaceChargeServices == [EnableSimEfieldSCE : BOOLEAN]

\* sim::LArG4Parameters: RecombA 0.800, Recombk 0.0486, ModBoxA 0.930,
\* ModBoxB 0.212; GeVToElectrons is kept within the fixed-point range
LArG4ParameterSets ==
  [RecombA : {Fin(8000)}, Recombk : {Fin(486)},
   ModBoxA : {Fin(9300)}, ModBoxB : {Fin(2120)},
   UseModBoxRecomb : BOOLEAN,
   GeVToElectrons : {Fin(42370 * Scale)}]

\* detinfo::DetectorProperties: temperature (K), the density (g/cm^3) its
\* Density() gives at that temperature, and the nominal field (kV/cm)
DetectorPropertySets ==
  [Temperature : {Fin(87 * Scale)}, DensityAtTemperature : {Fin(13954)},
   Efield : {Fin(5000), Fin(25000)}]

Density(detp, temperature) == detp.DensityAtTemperature

\* detinfo::LArProperties: yields per MeV (kept within the fixed-point range)
LArPropertySets ==
  [ScintByParticleType : BOOLEAN,
   ScintYield : {Fin(210000)},
   ProtonScintYield : {Fin(192000)},
   MuonScintYield : {Fin(240000)},
   PionScintYield : {Fin(230000)},
   KaonScintYield : {Fin(220000)},
   AlphaScintYield : {Fin(168000)},
   ElectronScintYield : {Fin(200000)}]

\* sim::SimEnergyDeposit
SimEnergyDeposit(e, ds, pt, pdg) ==
  [Energy |-> e, StepLength |-> ds, MidPoint |-> pt, PdgCode |-> pdg]

\* the deposits the transport stage hands to the calculator
DepositAt(i) ==
  CASE i = 1 -> SimEnergyDeposit(Fin(2 * Scale), Fin(3000), <<0, 0, 0>>, 2212)
    [] i = 2 -> SimEnergyDeposit(Fin(5 * Scale), Fin(0), <<50, 0, 10>>, 13)
    [] i = 3 -> SimEnergyDeposit(Fin(2000), Fin(3000), <<100, 0, 20>>, 1000020040)
    [] OTHER -> SimEnergyDeposit(Fin(i * Scale), Fin(6000), <<0, 0, 0>>, 2112)

Deposits == {DepositAt(i) : i \in 1..NumDeposits}

\* ------------------------------------------------------------------------
\* The object
\* ------------------------------------------------------------------------
VARIABLES calc, last

vars == <<calc, last>>

\* member values a constructor that assigns nothing can leave behind
Indeterminate == {Fin(0), Fin(7 * Scale)}

NoService ==
  [larp |-> CHOOSE p \in LArPropertySets : TRUE,
   detp |-> CHOOSE p \in DetectorPropertySets : TRUE,
   lgp |-> CHOOSE p \in LArG4ParameterSets : TRUE,
   sce |-> CHOOSE p \in SpaceChargeServices : TRUE]

\* ISCalculationSeparate::ISCalculationSeparate(): no member is set; the
\* offsets vector is of class type and constructs to zero
Constructed(g) ==
  [bound |-> FALSE,
   fLArProp |-> NoService.larp, fSCE |-> NoService.sce,
   fDetProp |-> NoService.detp, fLArG4Prop |-> NoService.lgp,
   fScintYieldFactor |-> g,
   fRecombA |-> g, fRecombk |-> g, fModBoxA |-> g, fModBoxB |-> g,
   fUseModBoxRecomb |-> FALSE,
   fEfieldOffsets |-> Vec(0, 0, 0),
   fEnergyDeposit |-> g, fNumScintPhotons |-> g, fNumIonElectrons |-> g]

\* Reset that leaves the photon count alone
ResetKeepingPhotons(this) ==
  [this EXCEPT !.fEnergyDeposit = Zero, !.fNumIonElectrons = Zero]

\* ISCalculationSeparate::Reset
Reset(this) ==
  [this EXCEPT !.fEnergyDeposit = Zero,
               !.fNumScintPhotons = Zero,
               !.fNumIonElectrons = Zero]

\* fRecombk = Recombk() / Density(Temperature())
InitRecombk(lgp, detp) == FDiv(lgp.Recombk, Density(detp, detp.Temperature))

\* ModBoxB taken as supplied, without the density
InitModBoxBAsSupplied(lgp, detp) == lgp.ModBoxB

\* fModBoxB = ModBoxB() / Density(Temperature())
InitModBoxB(lgp, detp) == FDiv(lgp.ModBoxB, Density(detp, detp.Temperature))

\* ISCalculationSeparate::Initialize
Initialize(this, larp, detp, lgp, sce) ==
  Reset([this EXCEPT !.bound = TRUE,
                     !.fLArProp = larp, !.fSCE = sce,
                     !.fDetProp = detp, !.fLArG4Prop = lgp,
                     !.fScintYieldFactor = One,
                     !.fRecombA = lgp.RecombA,
                     !.fRecombk = InitRecombk(lgp, detp),
                     !.fModBoxA = lgp.ModBoxA,
                     !.fModBoxB = InitModBoxB(lgp, detp),
                     !.fUseModBoxRecomb = lgp.UseModBoxRecomb])

\* the field magnitude with the offsets applied (the argument of the return)
CorrectedEField(efield, off) ==
  LET ex == FAdd(efield, FMul(efield, off.X))
  IN FSqrt(FAdd(FAdd(FMul(ex, ex),
                     FAdd(FMul(efield, off.Y), FMul(efield, off.Y))),
                FAdd(FMul(efield, off.Z), FMul(efield, off.Z))))

\* EFieldAtStep that applies the offsets whatever the service says
EFieldAtStepAlwaysCorrected(this, efield, pt) ==
  LET off == GetEfieldOffsets(this.fSCE, pt)
  IN [this |-> [this EXCEPT !.fEfieldOffsets = off],
      ret |-> CorrectedEField(efield, off),
      queried |-> TRUE]

\* ISCalculationSeparate::EFieldAtStep(double, float, float, float):
\* the object after the call, the value returned and whether the
\* space-charge service was asked for offsets
EFieldAtStep(this, efield, pt) ==
  IF this.fSCE.EnableSimEfieldSCE
  THEN LET off == GetEfieldOffsets(this.fSCE, pt)
       IN [this |-> [this EXCEPT !.fEfieldOffsets = off],
           ret |-> CorrectedEField(efield, off),
           queried |-> TRUE]
  ELSE [this |-> this, ret |-> efield, queried |-> FALSE]

\* no guard on dE/dx
GuarddEdxMissing(dEdx) == dEdx

\* if(dEdx < 1.) dEdx = 1.;
GuarddEdx(dEdx) == IF FLt(dEdx, One) THEN One ELSE dEdx

\* Xi = fModBoxB * dEdx / EFieldStep
ModBoxXi(this, dEdx, EFieldStep) == FDiv(FMul(this.fModBoxB, dEdx), EFieldStep)

\* the recombination factor without the test on the step length
RecombinationWithoutStepTest(this, ds, dEdx, EFieldStep) ==
  IF this.fUseModBoxRecomb
  THEN LET Xi == FDiv(FMul(this.fModBoxB, dEdx), EFieldStep)
       IN FDiv(FLog(FAdd(this.fModBoxA, Xi)), Xi)
  ELSE FDiv(this.fLArG4Prop.RecombA,
            FAdd(One, FDiv(FMul(dEdx, this.fRecombk), EFieldStep)))

\* the recombination factor; if(ds) is taken by every step length but 0
Recombination(this, ds, dEdx, EFieldStep) ==
  IF this.fUseModBoxRecomb
  THEN IF ds # Zero
       THEN LET Xi == ModBoxXi(this, dEdx, EFieldStep)
            IN FDiv(FLog(FAdd(this.fModBoxA, Xi)), Xi)
       ELSE Zero
  ELSE FDiv(this.fLArG4Prop.RecombA,
            FAdd(One, FDiv(FMul(dEdx, this.fRecombk), EFieldStep)))

\* GeVToElectrons() * 1.e-3 * e * recomb
IonElectrons(this, e, recomb) ==
  FMul(FMul(FMul(this.fLArG4Prop.GeVToElectrons, Fin(Scale \div 1000)), e), recomb)

\* ISCalculationSeparate::CalculateIonization(float, float, float, float,
\* float): the object after the call and the locals at its end
CalculateIonization(this, e, ds, pt) ==
  LET raw == FDiv(e, ds)
      field == EFieldAtStep(this, this.fDetProp.Efield, pt)
      dEdx == GuarddEdx(raw)
      recomb == Recombination(field.this, ds, dEdx, field.ret)
  IN [this |-> [field.this EXCEPT
                  !.fNumIonElectrons = IonElectrons(field.this, e, recomb)],
      dEdx |-> dEdx, EFieldStep |-> field.ret, recomb |-> recomb,
      Xi |-> IF this.fUseModBoxRecomb /\ ds # Zero
             THEN ModBoxXi(field.this, dEdx, field.ret) ELSE Zero,
      queried |-> field.queried]

\* a switch on the absolute value of the species code
ScintYieldByAbsCode(larp, pdg) ==
  CASE Abs(pdg) = 2212 -> larp.ProtonScintYield
    [] Abs(pdg) = 13 -> larp.MuonScintYield
    [] Abs(pdg) = 211 -> larp.PionScintYield
    [] Abs(pdg) = 321 -> larp.KaonScintYield
    [] Abs(pdg) = 1000020040 -> larp.AlphaScintYield
    [] OTHER -> larp.ElectronScintYield

\* the switch on the species code
ScintYieldByParticleType(larp, pdg) ==
  CASE pdg = 2212 -> larp.ProtonScintYield
    [] pdg = 13 \/ pdg = -13 -> larp.MuonScintYield
    [] pdg = 211 \/ pdg = -211 -> larp.PionScintYield
    [] pdg = 321 \/ pdg = -321 -> larp.KaonScintYield
    [] pdg = 1000020040 -> larp.AlphaScintYield
    [] pdg = 11 \/ pdg = -11 \/ pdg = 22 -> larp.ElectronScintYield
    [] OTHER -> larp.ElectronScintYield

\* CalculateScintillation that adds to the photon count
CalculateScintillationAdding(this, e, pdg) ==
  [this EXCEPT !.fNumScintPhotons =
     FAdd(this.fNumScintPhotons,
          IF this.fLArProp.ScintByParticleType
          THEN FMul(ScintYieldByParticleType(this.fLArProp, pdg), e)
          ELSE FMul(FMul(this.fScintYieldFactor, this.fLArProp.ScintYield), e))]

\* ISCalculationSeparate::CalculateScintillation(float, int)
CalculateScintillation(this, e, pdg) ==
  IF this.fLArProp.ScintByParticleType
  THEN [this EXCEPT !.fNumScintPhotons =
          FMul(ScintYieldByParticleType(this.fLArProp, pdg), e)]
  ELSE [this EXCEPT !.fNumScintPhotons =
          FMul(FMul(this.fScintYieldFactor, this.fLArProp.ScintYield), e)]

\* the deposit overload also storing the deposit's energy
CalculateIonizationEdepSettingEnergy(this, edep) ==
  CalculateIonization([this EXCEPT !.fEnergyDeposit = edep.Energy],
                      edep.Energy, edep.StepLength, edep.MidPoint)

\* ISCalculationSeparate::CalculateIonization(sim::SimEnergyDeposit const&)
CalculateIonizationEdep(this, edep) ==
  CalculateIonization(this, edep.Energy, edep.StepLength, edep.MidPoint)

\* ISCalculationSeparate::CalculateScintillation(sim::SimEnergyDeposit const&)
CalculateScintillationEdep(this, edep) ==
  CalculateScintillation(this, edep.Energy, edep.PdgCode)

\* ISCalculationSeparate::CalculateIonizationAndScintillation
CalculateIonizationAndScintillation(this, edep) ==
  LET ion == CalculateIonizationEdep([this EXCEPT !.fEnergyDeposit = edep.Energy], edep)
  IN [ion EXCEPT !.this = CalculateScintillationEdep(ion.this, edep)]

\* ------------------------------------------------------------------------
\* Calls made on the object
\* ------------------------------------------------------------------------
\* `last` records the most recent call: its name, its arguments, what the
\* call computed on the way (locals, return value), and whether the call
\* before it was CalculateIonizationAndScintillation
NoCall ==
  [op |-> "constructor", e |-> Zero, ds |-> Zero, pt |-> <<0, 0, 0>>, pdg |-> 0,
   efield |-> Zero, ret |-> Zero, dEdx |-> Zero, EFieldStep |-> Zero,
   Xi |-> Zero, recomb |-> Zero, queried |-> FALSE, afterProcess |-> FALSE]

Call(op) == [NoCall EXCEPT !.op = op, !.afterProcess = (last.op = "Process")]

IonCall(op, e, ds, pt, pdg, r) ==
  [Call(op) EXCEPT !.e = e, !.ds = ds, !.pt = pt, !.pdg = pdg,
                   !.dEdx = r.dEdx, !.EFieldStep = r.EFieldStep, !.Xi = r.Xi,
                   !.recomb = r.recomb, !.queried = r.queried]

Init == \E g \in Indeterminate : calc = Constructed(g) /\ last = NoCall

\* the object right after Initialize, for every recombination set-up
InitIonization ==
  \E detp \in DetectorPropertySets, lgp \in LArG4ParameterSets,
     sce \in SpaceChargeServices :
    /\ calc = Initialize(Constructed(Zero), NoService.larp, detp, lgp, sce)
    /\ last = [NoCall EXCEPT !.op = "Initialize"]

\* the object right after Initialize, for every scintillation set-up
InitScintillation ==
  \E larp \in LArPropertySets :
    /\ calc = Initialize(Constructed(Zero), larp, NoService.detp,
                         NoService.lgp, NoService.sce)
    /\ last = [NoCall EXCEPT !.op = "Initialize"]

InitializeCall ==
  \E larp \in LArPropertySets, detp \in DetectorPropertySets,
     lgp \in LArG4ParameterSets, sce \in SpaceChargeServices :
    /\ calc' = Initialize(calc, larp, detp, lgp, sce)
    /\ last' = Call("Initialize")

ResetCall ==
  /\ calc' = Reset(calc)
  /\ last' = Call("Reset")

\* the calls below dereference the service pointers: Initialize comes first
ProcessCall ==
  /\ calc.bound
  /\ \E edep \in Deposits :
       \E r \in {CalculateIonizationAndScintillation(calc, edep)} :
          /\ calc' = r.this
          /\ last' = IonCall("Process", edep.Energy, edep.StepLength,
                             edep.MidPoint, edep.PdgCode, r)

CalculateIonizationEdepCall ==
  /\ calc.bound
  /\ \E edep \in Deposits :
       \E r \in {CalculateIonizationEdep(calc, edep)} :
          /\ calc' = r.this
          /\ last' = IonCall("CalculateIonization", edep.Energy, edep.StepLength,
                             edep.MidPoint, 0, r)

CalculateScintillationEdepCall ==
  /\ calc.bound
  /\ \E edep \in Deposits :
       /\ calc' = CalculateScintillationEdep(calc, edep)
       /\ last' = [Call("CalculateScintillation") EXCEPT
                     !.e = edep.Energy, !.pdg = edep.PdgCode]

CalculateIonizationCall ==
  /\ calc.bound
  /\ \E e \in Energies, ds \in StepLengths, pt \in MidPoints :
       \E r \in {CalculateIonization(calc, e, ds, pt)} :
          /\ calc' = r.this
          /\ last' = IonCall("CalculateIonization", e, ds, pt, 0, r)

EFieldAtStepCall ==
  /\ calc.bound
  /\ \E detp \in DetectorPropertySets, pt \in MidPoints :
       \E r \in {EFieldAtStep(calc, detp.Efield, pt)} :
          /\ calc' = r.this
          /\ last' = [Call("EFieldAtStep") EXCEPT
                        !.efield = detp.Efield, !.pt = pt, !.ret = r.ret,
                        !.queried = r.queried]

CalculateScintillationCall ==
  /\ calc.bound
  /\ \E e \in Energies, pdg \in PdgCodes :
       /\ calc' = CalculateScintillation(calc, e, pdg)
       /\ last' = [Call("CalculateScintillation") EXCEPT !.e = e, !.pdg = pdg]

\* the life cycle: Initialize, Reset and the per-deposit calls
Next ==
  \/ InitializeCall
  \/ ResetCall
  \/ ProcessCall
  \/ CalculateIonizationEdepCall
  \/ CalculateScintillationEdepCall

Spec == Init /\ [][Next]_vars

\* the recombination model and the field correction over their inputs
NextIonization ==
  \/ CalculateIonizationCall
  \/ EFieldAtStepCall

SpecIonization == InitIonization /\ [][NextIonization]_vars

\* the scintillation yield model over its inputs
NextScintillation == CalculateScintillationCall

SpecScintillation == InitScintillation /\ [][NextScintillation]_vars

\* ------------------------------------------------------------------------
\* Properties
\* ------------------------------------------------------------------------
IonActed == last.op \in {"CalculateIonization", "Process"}

ScintActed == last.op \in {"CalculateScintillation", "Process"}

\* the configuration held by the object
ConfigOf(this) ==
  [bound |-> this.bound, fLArProp |-> this.fLArProp, fSCE |-> this.fSCE,
   fDetProp |-> this.fDetProp, fLArG4Prop |-> this.fLArG4Prop,
   fScintYieldFactor |-> this.fScintYieldFactor,
   fRecombA |-> this.fRecombA, fRecombk |-> this.fRecombk,
   fModBoxA |-> this.fModBoxA, fModBoxB |-> this.fModBoxB,
   fUseModBoxRecomb |-> this.fUseModBoxRecomb]

\* C1: in CalculateIonization the dE/dx used is never below 1.0, and in
\* standard mode a zero step length gives the survival fraction
\* recombA / (1 + 1.0 * recombK / field), as if dE/dx were 1.0
C1_ZeroStepClampedToFloor ==
  IonActed =>
    /\ ~FLt(last.dEdx, One)
    /\ (~calc.fUseModBoxRecomb /\ last.ds = Zero) =>
         last.recomb =
           FDiv(calc.fLArG4Prop.RecombA,
                FAdd(One, FDiv(FMul(One, calc.fRecombk), last.EFieldStep)))

\* C2: with the spatial correction enabled EFieldAtStep returns
\* sqrt((E + E ox)^2 + (E oy + E oy)^2 + (E oz + E oz)^2), each term squared
C2_EveryTermSquared ==
  (last.op = "EFieldAtStep" /\ calc.fSCE.EnableSimEfieldSCE) =>
    LET E == last.efield
        off == GetEfieldOffsets(calc.fSCE, last.pt)
        tx == FAdd(E, FMul(E, off.X))
        ty == FAdd(FMul(E, off.Y), FMul(E, off.Y))
        tz == FAdd(FMul(E, off.Z), FMul(E, off.Z))
    IN last.ret = FSqrt(FAdd(FAdd(FMul(tx, tx), FMul(ty, ty)), FMul(tz, tz)))

\* the deposit of the 2.0 MeV / 0.3 cm example at 0.5 kV/cm
IsExampleStep ==
  /\ last.e = Fin(2 * Scale)
  /\ last.ds = Fin(3000)
  /\ last.EFieldStep = Fin(5000)

\* C3 as stated: in modified-box mode with stepLength > 0 the survival
\* fraction is ln(modBoxA + Xi) / Xi with Xi = modBoxB * dE/dx / field for
\* modBoxB as supplied; in the example Xi = 2.827
C3_XiFromSuppliedModBoxB ==
  (IonActed /\ calc.fUseModBoxRecomb /\ last.ds # Zero) =>
    /\ last.Xi = FDiv(FMul(calc.fLArG4Prop.ModBoxB, last.dEdx), last.EFieldStep)
    /\ last.recomb = FDiv(FLog(FAdd(calc.fLArG4Prop.ModBoxA, last.Xi)), last.Xi)
    /\ IsExampleStep => Abs(last.Xi.val - 28270) <= 20

\* C3, amended: in modified-box mode with stepLength > 0 the survival
\* fraction is ln(modBoxA + Xi) / Xi with Xi = (modBoxB / density) * dE/dx /
\* field: modBoxB, like recombK, is divided by the density at
\* initialization, modBoxA is used as supplied; in the example, at density
\* 1.3954, Xi = 2.025
C3_XiFromDensityScaledModBoxB ==
  (IonActed /\ calc.fUseModBoxRecomb /\ last.ds # Zero) =>
    LET density == Density(calc.fDetProp, calc.fDetProp.Temperature)
    IN /\ last.Xi = FDiv(FMul(FDiv(calc.fLArG4Prop.ModBoxB, density), last.dEdx),
                         last.EFieldStep)
       /\ calc.fRecombk = FDiv(calc.fLArG4Prop.Recombk, density)
       /\ last.recomb = FDiv(FLog(FAdd(calc.fLArG4Prop.ModBoxA, last.Xi)), last.Xi)
       /\ IsExampleStep => Abs(last.Xi.val - 20250) <= 20

C3_Witness ==
  /\ last.op = "CalculateIonization"
  /\ calc.fUseModBoxRecomb
  /\ ~calc.fSCE.EnableSimEfieldSCE
  /\ IsExampleStep
  /\ last.dEdx = Fin(66666)

\* C4: in modified-box mode a deposit with step length 0 gives an electron
\* count of exactly 0, for every energy and position, with or without the
\* spatial correction
C4_ModBoxZeroStepGivesNoElectrons ==
  (IonActed /\ calc.fUseModBoxRecomb /\ last.ds = Zero) =>
    calc.fNumIonElectrons = Zero

C4_Witness ==
  /\ last.op = "CalculateIonization"
  /\ calc.fUseModBoxRecomb
  /\ last.ds = Zero
  /\ last.e = Fin(5 * Scale)
  /\ last.queried
  /\ calc.fNumIonElectrons = Zero

\* two successive CalculateIonization calls at the same step length > 0 and
\* the same field, the second with the larger energy
EnergyRaised ==
  /\ last.op = "CalculateIonization"
  /\ last'.op = "CalculateIonization"
  /\ last'.ds = last.ds
  /\ FLt(Zero, last.ds)
  /\ last'.EFieldStep = last.EFieldStep
  /\ IsFin(last.EFieldStep)
  /\ FLt(Zero, last.EFieldStep)
  /\ ConfigOf(calc') = ConfigOf(calc)
  /\ FLe(Zero, last.e)
  /\ FLt(last.e, last'.e)

ElectronsRaised ==
  /\ FLe(Zero, calc.fNumIonElectrons)
  /\ FLe(Zero, calc'.fNumIonElectrons)
  /\ FLt(calc.fNumIonElectrons, calc'.fNumIonElectrons)

\* C5 as stated: for energy >= 0 and stepLength > 0, with step length, field
\* and configuration fixed, the electron count is non-negative and strictly
\* increases with energy, in both recombination modes
C5_ElectronsIncreaseWithEnergy == [][EnergyRaised => ElectronsRaised]_vars

\* the survival fraction at the dE/dx floor is positive: always in standard
\* mode, and in modified-box mode when modBoxA + fModBoxB / field > 1
SurvivalPositiveAtFloor(this, field) ==
  this.fUseModBoxRecomb =>
    FLt(One, FAdd(this.fModBoxA, FDiv(this.fModBoxB, field)))

\* C5, amended: ... provided the field is finite and positive and, in
\* modified-box mode, modBoxA + fModBoxB / field > 1 (the survival fraction
\* at the dE/dx floor is positive)
C5_ElectronsIncreaseWhenSurvivalPositive ==
  [][(EnergyRaised /\ SurvivalPositiveAtFloor(calc, last.EFieldStep))
       => ElectronsRaised]_vars

C5_Witness ==
  /\ last.op = "CalculateIonization"
  /\ calc.fUseModBoxRecomb
  /\ last.ds = Fin(3000)
  /\ last.e = Fin(2000)
  /\ last.dEdx = One
  /\ IsFin(last.EFieldStep)
  /\ SurvivalPositiveAtFloor(calc, last.EFieldStep)
  /\ FLt(Zero, calc.fNumIonElectrons)

\* the yield selected by exact match against the species table
SelectedYield(larp, pdg) ==
  IF pdg = 2212 THEN larp.ProtonScintYield
  ELSE IF pdg \in {13, -13} THEN larp.MuonScintYield
  ELSE IF pdg \in {211, -211} THEN larp.PionScintYield
  ELSE IF pdg \in {321, -321} THEN larp.KaonScintYield
  ELSE IF pdg = 1000020040 THEN larp.AlphaScintYield
  ELSE ScintYieldByParticleType(larp, 11)

\* C6: in per-species mode the yield is selected by exact match on the
\* species code, every code outside the table uses the yield of code 11,
\* and the photon count is selectedYield * energy
C6_YieldSelectedByExactCode ==
  (ScintActed /\ calc.fLArProp.ScintByParticleType) =>
    /\ calc.fNumScintPhotons = FMul(SelectedYield(calc.fLArProp, last.pdg), last.e)
    /\ ScintYieldByParticleType(calc.fLArProp, 11) = calc.fLArProp.ElectronScintYield

C6_Witness ==
  /\ last.op = "CalculateScintillation"
  /\ calc.fLArProp.ScintByParticleType
  /\ last.pdg = -2212
  /\ last.e = Fin(2 * Scale)
  /\ calc.fNumScintPhotons = FMul(calc.fLArProp.ElectronScintYield, last.e)

\* the deposit of the last call
LastDeposit == SimEnergyDeposit(last.e, last.ds, last.pt, last.pdg)

\* C7: after any sequence of CalculateIonizationAndScintillation calls the
\* result depends only on the last deposit and the configuration: the total
\* energy is the last deposit's energy and the counts are those a freshly
\* reset calculator gives for that deposit alone
C7_ResultOfLastDepositOnly ==
  last.op = "Process" =>
    LET fresh == CalculateIonizationAndScintillation(Reset(calc), LastDeposit).this
    IN /\ calc.fEnergyDeposit = last.e
       /\ calc.fNumIonElectrons = fresh.fNumIonElectrons
       /\ calc.fNumScintPhotons = fresh.fNumScintPhotons

C7_Witness ==
  /\ last.op = "Process"
  /\ last.afterProcess
  /\ last.e = Fin(2000)
  /\ calc.fEnergyDeposit = Fin(2000)
  /\ calc.fNumScintPhotons # Zero

DirectIonization == last'.op = "CalculateIonization"

\* C8 as stated: a direct CalculateIonization call mutates no field of the
\* result: total energy, electron count and photon count stay as they were
C8_IonizationMutatesNoResult ==
  [][DirectIonization =>
       /\ calc'.fEnergyDeposit = calc.fEnergyDeposit
       /\ calc'.fNumIonElectrons = calc.fNumIonElectrons
       /\ calc'.fNumScintPhotons = calc.fNumScintPhotons]_vars

\* C8, amended: a direct CalculateIonization call overwrites the stored
\* electron count with the count of the deposit it is given (and the cached
\* field offsets when the spatial correction is enabled) and mutates
\* nothing else: total energy and photon count stay as they were
C8_IonizationWritesElectronCountOnly ==
  [][DirectIonization =>
       /\ calc'.fEnergyDeposit = calc.fEnergyDeposit
       /\ calc'.fNumScintPhotons = calc.fNumScintPhotons
       /\ ConfigOf(calc') = ConfigOf(calc)
       /\ calc'.fNumIonElectrons = IonElectrons(calc, last'.e, last'.recomb)
       /\ ~last'.queried => calc'.fEfieldOffsets = calc.fEfieldOffsets]_vars

C8_Witness ==
  /\ last.op = "CalculateIonization"
  /\ last.afterProcess
  /\ calc.fEnergyDeposit = Fin(2 * Scale)
  /\ last.e = Fin(2000)
  /\ calc.fNumScintPhotons # Zero
  /\ calc.fNumIonElectrons = IonElectrons(calc, last.e, last.recomb)

\* C9: with the spatial correction disabled EFieldAtStep returns the
\* nominal field exactly, for every position, and does not ask the
\* space-charge service for offsets
C9_DisabledCorrectionReturnsNominal ==
  /\ (last.op = "EFieldAtStep" /\ ~calc.fSCE.EnableSimEfieldSCE) =>
       (last.ret = last.efield /\ ~last.queried)
  /\ (last.op = "CalculateIonization" /\ ~calc.fSCE.EnableSimEfieldSCE) =>
       (last.EFieldStep = calc.fDetProp.Efield /\ ~last.queried)

C9_Witness ==
  /\ last.op = "EFieldAtStep"
  /\ ~calc.fSCE.EnableSimEfieldSCE
  /\ last.pt = <<100, 0, 20>>
  /\ last.ret = last.efield

ResultZeroed(this) ==
  /\ this.fEnergyDeposit = Zero
  /\ this.fNumIonElectrons = Zero
  /\ this.fNumScintPhotons = Zero

\* C10: Reset, after Initialize and any number of calls, zeroes the total
\* energy, the electron count and the photon count and leaves the
\* configuration unchanged; Initialize ends in the zeroed state too
C10_ResetZeroesResultOnly ==
  [][/\ (calc.bound /\ last'.op = "Reset") =>
          (ResultZeroed(calc') /\ ConfigOf(calc') = ConfigOf(calc)
             /\ calc'.fEfieldOffsets = calc.fEfieldOffsets)
     /\ last'.op = "Initialize" => ResultZeroed(calc')]_vars

C10_Witness ==
  /\ last.op = "Reset"
  /\ last.afterProcess
  /\ calc.bound
  /\ ResultZeroed(calc)

====
